---- MODULE Spec2Model ----
(***************************************************************************)
(* Model of the organization/user directory service of handler.js (the    *)
(* SQS-backed handlers, lines 410-893) as deployed by serverless.yml:     *)
(* the HTTP producers validate a request against the DynamoDB tables and  *)
(* publish an Intent to the SQS queue; the consumer Lambda applies        *)
(* batches of Intents to the tables; the query handlers read the tables.  *)
(*                                                                         *)
(* Every handler invocation is one step. No handler keeps state between   *)
(* invocations, a producer reads the tables and then only sends, and the  *)
(* consumer writes one item per record, so every interleaving of the      *)
(* awaits of concurrent invocations has the effect of some sequence of    *)
(* these steps with batches of every length.                              *)
(***************************************************************************)
EXTENDS Integers, Sequences, FiniteSets, Bags, TLC

VARIABLES
    orgs,       \* table Organizations: orgId -> item
    users,      \* table Users: userId -> item
    queue,      \* OrganizationUserQueue: the bag of messages not yet deleted
    clock,      \* the reading of new Date() of the last accepted request
    nextOrg,    \* how many organization ids uuidv4() has issued, plus one
    nextUser,   \* how many user ids uuidv4() has issued, plus one
    response,   \* what the invocation that has just ended returned
    event       \* the Records of the consumer invocation that has just ended

vars == <<orgs, users, queue, clock, nextOrg, nextUser, response, event>>

----------------------------------------------------------------------------
(* Bounds of the model *)

MaxClock == 2
MaxQueue == 2
MaxOrgs == 3
MaxUsers == 3

(* Input domains *)

Undefined == "undefined"
OrgNames == {"Acme", "Globex"}
Descriptions == {"D2"}
UserNames == {"Bob"}
Emails == {"a@x", "b@x"}
OrgUuids == <<"org-1", "org-2", "org-3", "org-4", "org-5">>
UserUuids == <<"usr-1", "usr-2", "usr-3", "usr-4", "usr-5">>
MissingId == "missing-id"
ClientUserId == "client-id"
UnknownOperation == "deleteOrganization"

(* Program constants *)

batchSize == 10

Min(a, b) == IF a < b THEN a ELSE b

----------------------------------------------------------------------------
(* JavaScript values *)

\* !v is false: v is neither undefined nor the empty string
Truthy(v) == v # Undefined /\ v # ""

\* data.f of a parsed message: undefined when the property is absent
Prop(data, f) == IF f \in DOMAIN data THEN data[f] ELSE Undefined

\* JSON.parse(JSON.stringify(data)): a property whose value is undefined is
\* dropped from the object
OptionalProps == {"orgId", "userId", "name", "description", "email"}

JsonRoundTrip(data) ==
    LET kept == {f \in DOMAIN data : ~(f \in OptionalProps /\ data[f] = Undefined)}
    IN  [f \in kept |-> data[f]]

Message(operation, data) == [operation |-> operation, data |-> JsonRoundTrip(data)]

----------------------------------------------------------------------------
(* DynamoDB DocumentClient operations on a table (key -> item) *)

\* get: result.Item is defined
HasItem(table, key) == key \in DOMAIN table

\* the item is stored under an id generated when it is written, not under the
\* id it carries
PutUnderGeneratedKey(table, key, item) ==
    LET pool == {OrgUuids[i] : i \in DOMAIN OrgUuids} \cup {UserUuids[i] : i \in DOMAIN UserUuids}
        free == pool \ DOMAIN table
        newKey == IF free = {} THEN key ELSE CHOOSE k \in free : TRUE
    IN  [k \in DOMAIN table \cup {newKey} |-> IF k = newKey THEN item ELSE table[k]]

\* put: full overwrite of the item under its key
Put(table, key, item) ==
    [k \in DOMAIN table \cup {key} |-> IF k = key THEN item ELSE table[k]]

\* the item is replaced by the key and the named attributes
UpdateWithoutMerge(table, keyName, key, sets) ==
    [k \in DOMAIN table \cup {key} |->
        IF k = key
        THEN [f \in {keyName} \cup DOMAIN sets |-> IF f \in DOMAIN sets THEN sets[f] ELSE key]
        ELSE table[k]]

\* the SET expression is applied to every item of the table
UpdateEveryItem(table, keyName, key, sets) ==
    [k \in DOMAIN table \cup {key} |->
        LET old == IF k \in DOMAIN table THEN table[k] ELSE [f \in {keyName} |-> k]
        IN  [f \in DOMAIN old \cup DOMAIN sets |->
                IF f \in DOMAIN sets THEN sets[f] ELSE old[f]]]

\* update with a SET expression: the named attributes are set, the others are
\* kept; an absent item is created from the key and the named attributes
Update(table, keyName, key, sets) ==
    LET old == IF key \in DOMAIN table THEN table[key]
               ELSE [f \in {keyName} |-> key]
        new == [f \in DOMAIN old \cup DOMAIN sets |->
                   IF f \in DOMAIN sets THEN sets[f] ELSE old[f]]
    IN  Put(table, key, new)

\* scan of Organizations with FilterExpression #name = :name
ScanByName(table, name) ==
    {k \in DOMAIN table : "name" \in DOMAIN table[k] /\ table[k].name = name}

\* the query reads the whole table, not the partition of the index
QueryEveryOrg(table, orgId) == DOMAIN table

\* query on OrgId-index with KeyConditionExpression orgId = :orgId
QueryByOrg(table, orgId) ==
    {k \in DOMAIN table : "orgId" \in DOMAIN table[k] /\ table[k].orgId = orgId}

\* the query also counts the Users that pending Intents are about to write
QueryByOrgEmailAndPending(table, orgId, email) ==
    {k \in DOMAIN table :
        /\ "orgId" \in DOMAIN table[k] /\ table[k].orgId = orgId
        /\ "email" \in DOMAIN table[k] /\ table[k].email = email}
    \cup {m.data.userId : m \in {p \in BagToSet(queue) :
              /\ p.operation \in {"createUser", "updateUser"}
              /\ p.data.orgId = orgId
              /\ p.data.email = email}}

\* the email is looked up in the whole table, not in the index partition
QueryByEmail(table, orgId, email) ==
    {k \in DOMAIN table : "email" \in DOMAIN table[k] /\ table[k].email = email}

\* the same query with FilterExpression email = :email
QueryByOrgEmail(table, orgId, email) ==
    {k \in QueryByOrg(table, orgId) :
        "email" \in DOMAIN table[k] /\ table[k].email = email}

----------------------------------------------------------------------------
(* Responses *)

NoResponse == [handler |-> "none", statusCode |-> 0, body |-> Undefined, thrown |-> FALSE]

buildResponse(handler, statusCode, body) ==
    [handler |-> handler, statusCode |-> statusCode, body |-> body, thrown |-> FALSE]

\* the invocation ended with an error thrown to the Lambda runtime
Thrown(handler) ==
    [handler |-> handler, statusCode |-> 0, body |-> Undefined, thrown |-> TRUE]

\* new Date(): a request is served at a later reading than the requests
\* before it, and the readings within one invocation agree
Now == clock + 1

IssuedOrgIds == {OrgUuids[i] : i \in 1..(nextOrg - 1)}
IssuedUserIds == {UserUuids[i] : i \in 1..(nextUser - 1)}

\* the message is sent a second time
SendMessageTwice(msg) == queue' = queue (+) SetToBag({msg}) (+) SetToBag({msg})

\* sqs.sendMessage
SendMessage(msg) == queue' = queue (+) SetToBag({msg})

QueueHasRoom == BagCardinality(queue) < MaxQueue
CanSend == clock < MaxClock /\ QueueHasRoom

----------------------------------------------------------------------------
(* Producers *)

\* the handler sends a message before it returns the failure
RejectedAfterSend(handler, statusCode) ==
    /\ response' = buildResponse(handler, statusCode, Undefined)
    /\ QueueHasRoom
    /\ SendMessage(Message(handler, [updatedAt |-> Now]))
    /\ UNCHANGED <<orgs, users, clock, nextOrg, nextUser, event>>

\* a return of buildResponse(4xx / 500, ...): nothing was sent or written
Rejected(handler, statusCode) ==
    /\ response' = buildResponse(handler, statusCode, Undefined)
    /\ UNCHANGED <<orgs, users, queue, clock, nextOrg, nextUser, event>>

HttpHandlers == {"createOrganization", "updateOrganization", "createOrUpdateUser",
                 "getOrganization", "getUser", "getAllOrganizations",
                 "getAllUsersByOrganization"}

\* the try block of an HTTP handler throws and its catch returns 500: the
\* body is not JSON, or a store call or sqs.sendMessage rejects. Every store
\* call of these handlers is a read and the send is their last call, whose
\* rejection means that the message is not in the queue.
serverError(handler) == Rejected(handler, 500)

\* the handler does not scan for an Organization of the same name
createOrganizationNoScan(name, description) ==
    IF ~Truthy(name) \/ ~Truthy(description)
    THEN Rejected("createOrganization", 400)
    ELSE /\ CanSend
         /\ nextOrg <= MaxOrgs
         /\ LET orgId == OrgUuids[nextOrg]
            IN  /\ SendMessage(Message("createOrganization",
                        [orgId |-> orgId, name |-> name, description |-> description,
                         createdAt |-> Now, updatedAt |-> Now]))
                /\ response' = buildResponse("createOrganization", 202, orgId)
         /\ clock' = Now
         /\ nextOrg' = nextOrg + 1
         /\ UNCHANGED <<orgs, users, nextUser, event>>

\* POST /organizations
createOrganization(name, description) ==
    IF ~Truthy(name) \/ ~Truthy(description)
    THEN Rejected("createOrganization", 400)
    ELSE IF ScanByName(orgs, name) # {}
    THEN Rejected("createOrganization", 409)
    ELSE /\ CanSend
         /\ nextOrg <= MaxOrgs
         /\ LET orgId == OrgUuids[nextOrg]
            IN  /\ SendMessage(Message("createOrganization",
                        [orgId |-> orgId, name |-> name, description |-> description,
                         createdAt |-> Now, updatedAt |-> Now]))
                /\ response' = buildResponse("createOrganization", 202, orgId)
         /\ clock' = Now
         /\ nextOrg' = nextOrg + 1
         /\ UNCHANGED <<orgs, users, nextUser, event>>

\* the handler publishes the Intent without reading the Organization
updateOrganizationUnchecked(orgId, name, description) ==
    IF ~Truthy(orgId)
    THEN Rejected("updateOrganization", 400)
    ELSE IF ~Truthy(name) /\ ~Truthy(description)
    THEN Rejected("updateOrganization", 400)
    ELSE /\ CanSend
         /\ SendMessage(Message("updateOrganization",
                [orgId |-> orgId, name |-> name, description |-> description,
                 updatedAt |-> Now]))
         /\ response' = buildResponse("updateOrganization", 202, orgId)
         /\ clock' = Now
         /\ UNCHANGED <<orgs, users, nextOrg, nextUser, event>>

\* PUT /organizations
updateOrganization(orgId, name, description) ==
    IF ~Truthy(orgId)
    THEN Rejected("updateOrganization", 400)
    ELSE IF ~Truthy(name) /\ ~Truthy(description)
    THEN Rejected("updateOrganization", 400)
    ELSE IF ~HasItem(orgs, orgId)
    THEN Rejected("updateOrganization", 404)
    ELSE /\ CanSend
         /\ SendMessage(Message("updateOrganization",
                [orgId |-> orgId, name |-> name, description |-> description,
                 updatedAt |-> Now]))
         /\ response' = buildResponse("updateOrganization", 202, orgId)
         /\ clock' = Now
         /\ UNCHANGED <<orgs, users, nextOrg, nextUser, event>>

\* the message is a createUser whatever the method
UserOperationAlwaysCreate(method) == "createUser"

\* operation of the message of createOrUpdateUser
UserOperation(method) == IF method = "POST" THEN "createUser" ELSE "updateUser"

\* POST/PUT /organizations/{orgId}/users. queryResult.Items[0] is any of the
\* items the query returns: the index has no sort key.
createOrUpdateUser(method, orgId, userId, name, email) ==
    IF ~Truthy(orgId) \/ ~Truthy(name) \/ ~Truthy(email)
    THEN Rejected("createOrUpdateUser", 400)
    ELSE IF ~HasItem(orgs, orgId)
    THEN Rejected("createOrUpdateUser", 404)
    ELSE LET generated == ~Truthy(userId)
             items == QueryByOrgEmail(users, orgId, email)
         IN  /\ generated => nextUser <= MaxUsers
             /\ LET newUserId == IF generated THEN UserUuids[nextUser] ELSE userId
                    accept ==
                        /\ CanSend
                        /\ SendMessage(Message(
                               UserOperation(method),
                               [orgId |-> orgId, userId |-> newUserId, name |-> name,
                                email |-> email, createdAt |-> Now, updatedAt |-> Now]))
                        /\ response' = buildResponse("createOrUpdateUser", 202, newUserId)
                        /\ clock' = Now
                        /\ nextUser' = IF generated THEN nextUser + 1 ELSE nextUser
                        /\ UNCHANGED <<orgs, users, nextOrg, event>>
                IN  IF items = {} THEN accept
                    ELSE \E existingUser \in items :
                           IF method = "POST" \/ (method = "PUT" /\ existingUser # newUserId)
                           THEN Rejected("createOrUpdateUser", 409)
                           ELSE accept

----------------------------------------------------------------------------
(* Query service *)

\* the handler does not test result.Item
getOrganizationResponseUnchecked(orgId) ==
    IF ~Truthy(orgId) THEN buildResponse("getOrganization", 400, Undefined)
    ELSE buildResponse("getOrganization", 200,
                       IF HasItem(orgs, orgId) THEN orgs[orgId] ELSE Undefined)

\* GET /organizations/{orgId}
getOrganizationResponse(orgId) ==
    IF ~Truthy(orgId) THEN buildResponse("getOrganization", 400, Undefined)
    ELSE IF ~HasItem(orgs, orgId) THEN buildResponse("getOrganization", 404, Undefined)
    ELSE buildResponse("getOrganization", 200, orgs[orgId])

getOrganization(orgId) ==
    /\ response' = getOrganizationResponse(orgId)
    /\ UNCHANGED <<orgs, users, queue, clock, nextOrg, nextUser, event>>

\* the handler returns the item of the key without comparing its orgId
getUserResponseByKey(orgId, userId) ==
    IF ~Truthy(orgId) \/ ~Truthy(userId) THEN buildResponse("getUser", 400, Undefined)
    ELSE IF ~HasItem(users, userId)
    THEN buildResponse("getUser", 404, [orgId |-> orgId, userId |-> userId])
    ELSE buildResponse("getUser", 200, users[userId])

\* GET /organizations/{orgId}/users/{userId}; the message of the 404 names
\* the userId and the orgId of the request
getUserResponse(orgId, userId) ==
    IF ~Truthy(orgId) \/ ~Truthy(userId) THEN buildResponse("getUser", 400, Undefined)
    ELSE IF ~HasItem(users, userId) \/ Prop(users[userId], "orgId") # orgId
    THEN buildResponse("getUser", 404, [orgId |-> orgId, userId |-> userId])
    ELSE buildResponse("getUser", 200, users[userId])

getUser(orgId, userId) ==
    /\ response' = getUserResponse(orgId, userId)
    /\ UNCHANGED <<orgs, users, queue, clock, nextOrg, nextUser, event>>

\* GET /organizations
getAllOrganizations ==
    /\ response' = buildResponse("getAllOrganizations", 200, {orgs[k] : k \in DOMAIN orgs})
    /\ UNCHANGED <<orgs, users, queue, clock, nextOrg, nextUser, event>>

\* GET /organizations/{orgId}/users
getAllUsersByOrganizationResponse(orgId) ==
    IF ~Truthy(orgId) THEN buildResponse("getAllUsersByOrganization", 400, Undefined)
    ELSE IF ~HasItem(orgs, orgId)
    THEN buildResponse("getAllUsersByOrganization", 404, Undefined)
    ELSE buildResponse("getAllUsersByOrganization", 200,
                       {users[k] : k \in QueryByOrg(users, orgId)})

getAllUsersByOrganization(orgId) ==
    /\ response' = getAllUsersByOrganizationResponse(orgId)
    /\ UNCHANGED <<orgs, users, queue, clock, nextOrg, nextUser, event>>

----------------------------------------------------------------------------
(* Consumer *)

KnownOperations == {"createOrganization", "updateOrganization", "createUser", "updateUser"}

\* createdAt is read from the clock when the Intent is applied
OrgItemCreatedAtApply(data) ==
    [orgId |-> data.orgId, name |-> data.name, description |-> data.description,
     createdAt |-> clock, updatedAt |-> data.updatedAt]

\* the Item of the put of case 'createOrganization'
OrgItem(data) ==
    [orgId |-> data.orgId, name |-> data.name, description |-> data.description,
     createdAt |-> data.createdAt, updatedAt |-> data.updatedAt]

\* the put keeps the orgId and createdAt of the item the table already holds
UserItemKeepingOrigin(data) ==
    LET origin == IF data.userId \in DOMAIN users THEN users[data.userId] ELSE data
    IN  [userId |-> data.userId, orgId |-> Prop(origin, "orgId"), name |-> data.name,
         email |-> data.email, createdAt |-> Prop(origin, "createdAt"),
         updatedAt |-> data.updatedAt]

\* the Item of the put of case 'createUser'
UserItem(data) ==
    [userId |-> data.userId, orgId |-> data.orgId, name |-> data.name,
     email |-> data.email, createdAt |-> data.createdAt, updatedAt |-> data.updatedAt]

\* updatedAt is read from the clock when the Intent is applied
OrgSetsAtApplyTime(data) ==
    LET present == {f \in {"name", "description"} : Truthy(Prop(data, f))} \cup {"updatedAt"}
    IN  [f \in present |-> IF f = "updatedAt" THEN clock ELSE data[f]]

\* the SET expression names every attribute, whether data carries it or not
OrgSetsEveryAttribute(data) ==
    [f \in {"name", "description", "updatedAt"} |-> Prop(data, f)]

\* the SET expression of case 'updateOrganization': name and description
\* when truthy in data, updatedAt always
OrgSets(data) ==
    LET present == {f \in {"name", "description"} : Truthy(Prop(data, f))} \cup {"updatedAt"}
    IN  [f \in present |-> data[f]]

\* the SET expression of case 'updateUser': name and email when truthy in
\* data, updatedAt always
UserSets(data) ==
    LET present == {f \in {"name", "email"} : Truthy(Prop(data, f))} \cup {"updatedAt"}
    IN  [f \in present |-> data[f]]

\* one iteration of the for loop when the store raises no error: the switch
\* on operation; store is [orgs, users]
Apply(store, msg) ==
    LET data == msg.data
    IN  CASE msg.operation = "createOrganization" ->
               [store EXCEPT !.orgs = Put(store.orgs, data.orgId, OrgItem(data))]
          [] msg.operation = "updateOrganization" ->
               [store EXCEPT !.orgs = Update(store.orgs, "orgId", data.orgId, OrgSets(data))]
          [] msg.operation = "createUser" ->
               [store EXCEPT !.users = Put(store.users, data.userId, UserItem(data))]
          [] msg.operation = "updateUser" ->
               [store EXCEPT !.users = Update(store.users, "userId", data.userId, UserSets(data))]
          [] OTHER -> store

\* the default branch of the switch calls the store too
CallsStoreAlways(msg) == TRUE

\* the iteration calls the store: only then can a store error end it
CallsStore(msg) == msg.operation \in KnownOperations

\* a record.body that JSON.parse rejects with a SyntaxError
InvalidJson == [syntaxError |-> TRUE]

\* a record.body that parses to a message of a known operation without data
NoData == [operation |-> "createUser"]

\* JSON.parse(record.body) throws
ParseThrows(msg) == "syntaxError" \in DOMAIN msg

\* data.orgId / data.userId of an undefined data throws a TypeError
DataThrows(msg) == msg.operation \in KnownOperations /\ "data" \notin DOMAIN msg

\* the iteration throws whatever the store does
IterationThrows(msg) == ParseThrows(msg) \/ DataThrows(msg)

\* the loop runs over the first n records from the last to the first
ApplyAllBackwards(store, records, n) ==
    LET after[k \in 0..n] ==
            IF k = 0 THEN store ELSE Apply(after[k - 1], records[n + 1 - k])
    IN  after[n]

\* the for loop over the first n records
RECURSIVE ApplyAll(_, _, _)
ApplyAll(store, records, n) ==
    IF n = 0 THEN store
    ELSE Apply(ApplyAll(store, records, n - 1), records[n])

Store == [orgs |-> orgs, users |-> users]

\* the batches the event source mapping can hand to one invocation
Batches ==
    LET msgs == BagToSet(queue)
        maxLen == Min(batchSize, BagCardinality(queue))
    IN  {b \in UNION {[1..n -> msgs] : n \in 1..maxLen} :
            \A m \in msgs : Cardinality({i \in DOMAIN b : b[i] = m}) <= CopiesIn(m, queue)}

BatchBag(records) ==
    [m \in {records[i] : i \in DOMAIN records} |->
        Cardinality({i \in DOMAIN records : records[i] = m})]

\* the catch block logs the error and the loop goes on
ThrowsAtNever(records, faultAt) == 0

\* the default branch of the switch throws as well
ThrowsAtUnknownToo(records, faultAt) ==
    LET throwing == {i \in DOMAIN records :
                        \/ IterationThrows(records[i])
                        \/ records[i].operation \notin KnownOperations
                        \/ i = faultAt /\ CallsStore(records[i])}
    IN  IF throwing = {} THEN 0
        ELSE CHOOSE i \in throwing : \A j \in throwing : i <= j

\* the first record whose iteration throws (0: none): its body is malformed,
\* or the store is out of order while record faultAt is handled (0: never)
\* and that iteration calls it
ThrowsAt(records, faultAt) ==
    LET throwing == {i \in DOMAIN records :
                        \/ IterationThrows(records[i])
                        \/ i = faultAt /\ CallsStore(records[i])}
    IN  IF throwing = {} THEN 0
        ELSE CHOOSE i \in throwing : \A j \in throwing : i <= j

\* processSqsMessages on event.Records = records. redeliver: the queue
\* delivers the messages again although the invocation succeeded.
processSqsMessages(records, faultAt, redeliver) ==
    LET k == ThrowsAt(records, faultAt)
        after == ApplyAll(Store, records, IF k = 0 THEN Len(records) ELSE k - 1)
    IN  /\ orgs' = after.orgs
        /\ users' = after.users
        /\ IF k = 0
           THEN /\ response' = buildResponse("processSqsMessages", 200, Undefined)
                /\ queue' = IF redeliver THEN queue ELSE queue (-) BatchBag(records)
           ELSE /\ response' = Thrown("processSqsMessages")
                /\ queue' = queue
        /\ event' = records
        /\ UNCHANGED <<clock, nextOrg, nextUser>>

----------------------------------------------------------------------------
(* Environment *)

\* a message of an operation the consumer does not know, sent to the queue
\* by some other principal
ExternalSend ==
    /\ QueueHasRoom
    /\ SendMessage(Message(UnknownOperation, [orgId |-> MissingId]))
    /\ UNCHANGED <<orgs, users, clock, nextOrg, nextUser, response, event>>

\* the runtime hands the response to the caller
ReturnResponse ==
    /\ response # NoResponse
    /\ response' = NoResponse
    /\ event' = << >>
    /\ UNCHANGED <<orgs, users, queue, clock, nextOrg, nextUser>>

----------------------------------------------------------------------------
(* Specification *)

\* The tables outlive the invocations: a run starts on the empty tables or
\* on tables that earlier accepted requests have filled.
ProvisionedOrg(i, name) ==
    [orgId |-> OrgUuids[i], name |-> name, description |-> "D",
     createdAt |-> 0, updatedAt |-> 0]

ProvisionedUser(i, email) ==
    [userId |-> UserUuids[i], orgId |-> OrgUuids[1], name |-> "Ann", email |-> email,
     createdAt |-> 0, updatedAt |-> 0]

Init ==
    /\ \/ /\ orgs = << >>
          /\ users = << >>
          /\ nextOrg = 1
          /\ nextUser = 1
       \/ /\ orgs = (OrgUuids[1] :> ProvisionedOrg(1, "Acme"))
                      @@ (OrgUuids[2] :> ProvisionedOrg(2, "Globex"))
          /\ users = (UserUuids[1] :> ProvisionedUser(1, "a@x"))
                       @@ (UserUuids[2] :> ProvisionedUser(2, "b@x"))
          /\ nextOrg = 3
          /\ nextUser = 3
    /\ queue = EmptyBag
    /\ clock = 0
    /\ response = NoResponse
    /\ event = << >>

Idle == response = NoResponse

OrgIdInputs == IssuedOrgIds \cup {MissingId, Undefined}
UserIdInputs == IssuedUserIds \cup {ClientUserId, Undefined}

CreateOrganization ==
    /\ Idle
    /\ \E name \in OrgNames \cup {Undefined}, description \in Descriptions \cup {Undefined} :
          createOrganization(name, description)

UpdateOrganization ==
    /\ Idle
    /\ \E orgId \in OrgIdInputs, name \in OrgNames \cup {Undefined},
          description \in Descriptions \cup {Undefined} :
          updateOrganization(orgId, name, description)

CreateOrUpdateUser ==
    /\ Idle
    /\ \E method \in {"POST", "PUT"}, orgId \in OrgIdInputs, userId \in UserIdInputs,
          name \in UserNames \cup {Undefined}, email \in Emails \cup {Undefined} :
          createOrUpdateUser(method, orgId, userId, name, email)

GetOrganization == Idle /\ \E orgId \in OrgIdInputs : getOrganization(orgId)

GetUser == Idle /\ \E orgId \in OrgIdInputs, userId \in UserIdInputs : getUser(orgId, userId)

GetAllOrganizations == Idle /\ getAllOrganizations

GetAllUsersByOrganization ==
    Idle /\ \E orgId \in OrgIdInputs : getAllUsersByOrganization(orgId)

ProcessSqsMessages ==
    /\ Idle
    /\ \E records \in Batches : \E faultAt \in 0..Len(records), redeliver \in BOOLEAN :
          processSqsMessages(records, faultAt, redeliver)

External == Idle /\ ExternalSend

ServerError == Idle /\ \E handler \in HttpHandlers : serverError(handler)

Next ==
    \/ CreateOrganization
    \/ UpdateOrganization
    \/ CreateOrUpdateUser
    \/ GetOrganization
    \/ GetUser
    \/ GetAllOrganizations
    \/ GetAllUsersByOrganization
    \/ ProcessSqsMessages
    \/ External
    \/ ServerError
    \/ ReturnResponse

Spec == Init /\ [][Next]_vars

\* Absent the race: a request is validated only when every message accepted
\* before it has been applied and deleted.
Drained == queue = EmptyBag

NextSerial ==
    \/ Drained /\ CreateOrganization
    \/ Drained /\ UpdateOrganization
    \/ Drained /\ CreateOrUpdateUser
    \/ ProcessSqsMessages
    \/ ReturnResponse

SpecSerial == Init /\ [][NextSerial]_vars

\* The Intent accepted at reading t: the readings of accepted requests differ.
IsIntentOf(msg, t) == msg.operation \in KnownOperations /\ msg.data.updatedAt = t

\* The event source mapping hands the consumer a batch that holds the Intent
\* accepted at reading t while the store answers every call.
Deliver(t) ==
    /\ Idle
    /\ \E records \in Batches :
          /\ \E j \in DOMAIN records : IsIntentOf(records[j], t)
          /\ \E redeliver \in BOOLEAN : processSqsMessages(records, 0, redeliver)

NextLive ==
    \/ CreateOrganization
    \/ UpdateOrganization
    \/ ProcessSqsMessages
    \/ External
    \/ ReturnResponse

\* At-least-once delivery with fair redelivery and transient store errors:
\* every invocation returns, and an Intent that stays in the queue is again
\* and again in a batch that meets no store error.
SpecLive ==
    /\ Init
    /\ [][NextLive]_vars
    /\ WF_vars(ReturnResponse)
    /\ \A t \in 1..MaxClock : SF_vars(Deliver(t))

\* Another principal sends malformed bodies to the queue.
ExternalMalformedSend ==
    /\ QueueHasRoom
    /\ \E msg \in {InvalidJson, NoData} : SendMessage(msg)
    /\ UNCHANGED <<orgs, users, clock, nextOrg, nextUser, response, event>>

ExternalMalformed == Idle /\ ExternalMalformedSend

NextMalformed ==
    \/ CreateOrganization
    \/ ProcessSqsMessages
    \/ External
    \/ ExternalMalformed
    \/ ReturnResponse

SpecMalformed == Init /\ [][NextMalformed]_vars

----------------------------------------------------------------------------
(* Properties *)

Pending == BagToSet(queue)
CreateIntents == {m \in Pending : m.operation \in {"createOrganization", "createUser"}}
UpdateIntents == {m \in Pending : m.operation \in {"updateOrganization", "updateUser"}}
ForOrganization(m) == m.operation \in {"createOrganization", "updateOrganization"}

\* the item an Intent is about, in a store
Target(store, m) ==
    IF ForOrganization(m) THEN store.orgs[m.data.orgId] ELSE store.users[m.data.userId]
HasTarget(store, m) ==
    IF ForOrganization(m) THEN m.data.orgId \in DOMAIN store.orgs
    ELSE m.data.userId \in DOMAIN store.users

\* C1: in every reachable store, applying a createOrganization or createUser
\* Intent twice in succession leaves the store, and so the item under the
\* Intent's orgId/userId with all its fields, as applying it once does.
C1_CreateIdempotent ==
    \A m \in CreateIntents :
        LET once == Apply(Store, m)
            twice == Apply(once, m)
        IN  /\ HasTarget(once, m)
            /\ HasTarget(twice, m)
            /\ Target(twice, m) = Target(once, m)
            /\ twice = once

\* a create Intent that was applied is delivered again
C1_Witness ==
    /\ response.handler = "processSqsMessages"
    /\ response.statusCode = 200
    /\ \E i \in DOMAIN event :
          /\ event[i] \in CreateIntents
          /\ HasTarget(Store, event[i])
          /\ Target(Store, event[i]).createdAt = event[i].data.createdAt
          /\ event[i].data.createdAt > 0

\* C2: in every reachable store, applying an updateOrganization or updateUser
\* Intent twice in succession leaves the store as applying it once does, and
\* the item's updatedAt is the updatedAt carried in the Intent, whatever the
\* clock reads when it is applied.
C2_UpdateIdempotent ==
    \A m \in UpdateIntents :
        LET once == Apply(Store, m)
            twice == Apply(once, m)
        IN  /\ HasTarget(once, m)
            /\ Target(once, m).updatedAt = m.data.updatedAt
            /\ Target(twice, m) = Target(once, m)
            /\ twice = once

\* an update Intent that was applied is delivered again when the clock has
\* moved on
C2_Witness ==
    \E m \in UpdateIntents :
        /\ HasTarget(Store, m)
        /\ Target(Store, m).updatedAt = m.data.updatedAt
        /\ clock > m.data.updatedAt

\* C3: an accepted update request for an Organization that supplies only a
\* description (only a name) publishes one updateOrganization Intent without
\* name (without description), and applying a pending updateOrganization
\* Intent to an Organization leaves orgId, createdAt and every field the
\* Intent does not carry as they are and sets updatedAt to the Intent's value.
C3_PendingFrame ==
    \A m \in Pending :
        (m.operation = "updateOrganization" /\ m.data.orgId \in DOMAIN orgs) =>
            LET before == orgs[m.data.orgId]
                after == Apply(Store, m).orgs[m.data.orgId]
            IN  /\ after.orgId = before.orgId
                /\ after.createdAt = before.createdAt
                /\ after.updatedAt = m.data.updatedAt
                /\ IF "name" \in DOMAIN m.data THEN after.name = m.data.name
                   ELSE after.name = before.name
                /\ IF "description" \in DOMAIN m.data
                   THEN after.description = m.data.description
                   ELSE after.description = before.description

C3_PartialUpdate ==
    [][ /\ (response'.handler = "updateOrganization" /\ response'.statusCode = 202) =>
              \A orgId \in DOMAIN orgs, name \in OrgNames \cup {Undefined},
                 description \in Descriptions \cup {Undefined} :
                  ( /\ Truthy(name) # Truthy(description)
                    /\ updateOrganization(orgId, name, description) ) =>
                      \E m \in BagToSet(queue') :
                          /\ queue' = queue (+) SetToBag({m})
                          /\ m.operation = "updateOrganization"
                          /\ m.data.orgId = orgId
                          /\ m.data.updatedAt = clock'
                          /\ ("name" \in DOMAIN m.data) = Truthy(name)
                          /\ ("description" \in DOMAIN m.data) = Truthy(description)
        /\ (queue' # queue \/ orgs' # orgs) => C3_PendingFrame'
      ]_vars

\* a description-only update has been applied to an Organization created
\* before it
C3_Witness ==
    /\ response.handler = "processSqsMessages"
    /\ response.statusCode = 200
    /\ \E i \in DOMAIN event :
          /\ event[i].operation = "updateOrganization"
          /\ "name" \notin DOMAIN event[i].data
          /\ event[i].data.orgId \in DOMAIN orgs
          /\ LET org == orgs[event[i].data.orgId]
             IN  /\ org.description = event[i].data.description
                 /\ org.updatedAt = event[i].data.updatedAt
                 /\ org.createdAt < org.updatedAt
                 /\ org.name \in OrgNames

\* C4: (as claimed) when every accepted mutation is applied before the next
\* request is validated, no two distinct User items of the same Organization
\* have the same email.
C4_ScopedEmailUnique ==
    \A u1 \in DOMAIN users, u2 \in DOMAIN users :
        ( /\ u1 # u2
          /\ "orgId" \in DOMAIN users[u1] /\ "orgId" \in DOMAIN users[u2]
          /\ users[u1].orgId = users[u2].orgId ) =>
              users[u1].email # users[u2].email

\* C5: (as claimed) when every accepted mutation is applied before the next
\* request is validated, no two distinct Organization items have the same
\* name.
C5_OrgNameUnique ==
    \A o1 \in DOMAIN orgs, o2 \in DOMAIN orgs :
        o1 # o2 => orgs[o1].name # orgs[o2].name

\* record i of a batch is the last one of the batch that writes its item
LastForTarget(records, i) ==
    \A j \in DOMAIN records :
        (j > i /\ records[j].operation \in KnownOperations
           /\ ForOrganization(records[j]) = ForOrganization(records[i])) =>
            IF ForOrganization(records[i])
            THEN records[j].data.orgId # records[i].data.orgId
            ELSE records[j].data.userId # records[i].data.userId

\* no record of the batch writes the item under key
Untouched(records, forOrg, key) ==
    \A j \in DOMAIN records :
        (records[j].operation \in KnownOperations /\ ForOrganization(records[j]) = forOrg) =>
            (IF forOrg THEN records[j].data.orgId ELSE records[j].data.userId) # key

\* C6: the known race. A create request whose name (whose email, in its
\* Organization) no item of the store has is accepted with 202 and publishes
\* its Intent, whatever Intents are pending; and an invocation of the
\* consumer that meets no store error does not throw and leaves every create
\* Intent it applied in the store next to any other item with the same name
\* (the same orgId and email), in the batch or already stored.
C6_RaceDuplicates ==
    [][ /\ (response'.handler = "createOrganization" /\ response'.statusCode # 400) =>
              \A name \in OrgNames, description \in Descriptions :
                  ( /\ createOrganization(name, description)
                    /\ \A k \in DOMAIN orgs : orgs[k].name # name ) =>
                      /\ response'.statusCode = 202
                      /\ \E m \in BagToSet(queue') :
                            /\ queue' = queue (+) SetToBag({m})
                            /\ m.operation = "createOrganization"
                            /\ m.data.name = name
                            /\ m.data.orgId = response'.body
                            /\ \A p \in Pending : Prop(p.data, "orgId") # m.data.orgId
        /\ (response'.handler = "createOrUpdateUser" /\ response'.statusCode \in {202, 409}) =>
              \A orgId \in DOMAIN orgs, userId \in UserIdInputs,
                 name \in UserNames, email \in Emails :
                  ( /\ createOrUpdateUser("POST", orgId, userId, name, email)
                    /\ \A k \in DOMAIN users :
                          ~(Prop(users[k], "orgId") = orgId /\ users[k].email = email) ) =>
                      /\ response'.statusCode = 202
                      /\ \E m \in BagToSet(queue') :
                            /\ queue' = queue (+) SetToBag({m})
                            /\ m.operation = "createUser"
                            /\ m.data.orgId = orgId
                            /\ m.data.email = email
                            /\ m.data.userId = response'.body
        /\ response'.handler = "processSqsMessages" =>
              \A records \in Batches, redeliver \in BOOLEAN :
                  processSqsMessages(records, 0, redeliver) =>
                      /\ ~response'.thrown
                      /\ \A i \in DOMAIN records :
                            (records[i].operation = "createOrganization"
                               /\ LastForTarget(records, i)) =>
                                LET d == records[i].data
                                IN  /\ d.orgId \in DOMAIN orgs'
                                    /\ orgs'[d.orgId].name = d.name
                                    /\ \A k \in DOMAIN orgs :
                                          (k # d.orgId /\ orgs[k].name = d.name
                                             /\ Untouched(records, TRUE, k)) =>
                                              orgs'[k].name = d.name
                      /\ \A i \in DOMAIN records :
                            (records[i].operation = "createUser"
                               /\ LastForTarget(records, i)) =>
                                LET d == records[i].data
                                IN  /\ d.userId \in DOMAIN users'
                                    /\ users'[d.userId].email = d.email
                                    /\ users'[d.userId].orgId = d.orgId
                                    /\ \A k \in DOMAIN users :
                                          (k # d.userId /\ Untouched(records, FALSE, k)
                                             /\ Prop(users[k], "orgId") = d.orgId
                                             /\ users[k].email = d.email) =>
                                              /\ users'[k].orgId = d.orgId
                                              /\ users'[k].email = d.email
      ]_vars

\* two create-user Intents with the same email for the same Organization,
\* accepted in this run, have both been applied: two User items of that
\* Organization share the email, and the consumer returned without an error
C6_Witness ==
    /\ response.handler = "processSqsMessages"
    /\ response.statusCode = 200
    /\ ~response.thrown
    /\ \E u1 \in DOMAIN users, u2 \in DOMAIN users :
          /\ u1 # u2
          /\ "orgId" \in DOMAIN users[u1] /\ "orgId" \in DOMAIN users[u2]
          /\ users[u1].orgId = users[u2].orgId
          /\ users[u1].email = users[u2].email
          /\ "createdAt" \in DOMAIN users[u1] /\ "createdAt" \in DOMAIN users[u2]
          /\ users[u1].createdAt > 0
          /\ users[u2].createdAt > 0

\* C7: an accepted POST /organizations returns 202 with the generated orgId
\* and publishes the Intent of that orgId and name; getOrganization of an
\* orgId answers 404 as long as the store has no item under it; an item
\* appears under an orgId only when the consumer applies the
\* createOrganization Intent of that orgId; and once an invocation has
\* applied it, with no later record of the batch for the same orgId,
\* getOrganization answers 200 with the Intent's name; the item stays and its
\* name changes only when the consumer applies an Intent carrying the new name.
C7_AcceptedThenVisible ==
    [][ /\ (response'.handler = "createOrganization" /\ response'.statusCode = 202) =>
              /\ response'.body = OrgUuids[nextOrg]
              /\ OrgUuids[nextOrg] \notin DOMAIN orgs'
              /\ getOrganizationResponse(OrgUuids[nextOrg])'.statusCode = 404
              /\ \A name \in OrgNames, description \in Descriptions :
                    createOrganization(name, description) =>
                        \E m \in BagToSet(queue') :
                            /\ m.operation = "createOrganization"
                            /\ m.data.orgId = response'.body
                            /\ m.data.name = name
        /\ \A i \in DOMAIN OrgUuids :
              LET orgId == OrgUuids[i]
              IN  /\ orgId \notin DOMAIN orgs' =>
                        getOrganizationResponse(orgId)'.statusCode = 404
                  /\ (orgId \notin DOMAIN orgs /\ orgId \in DOMAIN orgs') =>
                        /\ response'.handler = "processSqsMessages"
                        /\ \E j \in DOMAIN event' :
                              /\ event'[j].operation = "createOrganization"
                              /\ event'[j].data.orgId = orgId
                  /\ orgId \in DOMAIN orgs =>
                        /\ orgId \in DOMAIN orgs'
                        /\ getOrganizationResponse(orgId)'.statusCode = 200
                        /\ orgs'[orgId].name # orgs[orgId].name =>
                              /\ response'.handler = "processSqsMessages"
                              /\ \E j \in DOMAIN event' :
                                    /\ ForOrganization(event'[j])
                                    /\ event'[j].data.orgId = orgId
                                    /\ Prop(event'[j].data, "name") = orgs'[orgId].name
        /\ (response'.handler = "processSqsMessages" /\ ~response'.thrown) =>
              \A j \in DOMAIN event', i \in DOMAIN OrgUuids :
                  ( /\ event'[j].operation = "createOrganization"
                    /\ event'[j].data.orgId = OrgUuids[i]
                    /\ LastForTarget(event', j) ) =>
                      /\ getOrganizationResponse(OrgUuids[i])'.statusCode = 200
                      /\ getOrganizationResponse(OrgUuids[i])'.body.orgId = OrgUuids[i]
                      /\ getOrganizationResponse(OrgUuids[i])'.body.name = event'[j].data.name
      ]_vars

\* getOrganization answers 200 for an Organization created in this run
C7_Witness ==
    /\ response.handler = "getOrganization"
    /\ response.statusCode = 200
    /\ response.body.createdAt > 0
    /\ response.body.name \in OrgNames

\* C8: updateOrganization with an orgId under which the store has no item
\* answers 404, publishes nothing and leaves the tables as they are.
C8_UpdateMissingOrganization ==
    [][ response'.handler = "updateOrganization" =>
          \A orgId \in OrgIdInputs, name \in OrgNames \cup {Undefined},
             description \in Descriptions \cup {Undefined} :
              ( /\ Truthy(orgId)
                /\ Truthy(name) \/ Truthy(description)
                /\ orgId \notin DOMAIN orgs
                /\ updateOrganization(orgId, name, description) ) =>
                  /\ response'.statusCode = 404
                  /\ queue' = queue
                  /\ orgs' = orgs
                  /\ users' = users
      ]_vars

\* updateOrganization has answered 404 while the Intent that creates an
\* Organization is still pending
C8_Witness ==
    /\ response.handler = "updateOrganization"
    /\ response.statusCode = 404
    /\ \E m \in Pending : m.operation = "createOrganization"

\* a batch without its k-th record
Without(records, k) ==
    [i \in 1..(Len(records) - 1) |-> IF i < k THEN records[i] ELSE records[i + 1]]

\* C9: a record of an unknown operation changes nothing in the store and does
\* not make the invocation throw, even when the store is out of order while
\* the record is handled; the other records of the batch are applied, in
\* order, as if the record were not in the batch.
C9_UnknownOperationSkipped ==
    [][ response'.handler = "processSqsMessages" =>
          \A records \in Batches :
            \A faultAt \in 0..Len(records), redeliver \in BOOLEAN :
              processSqsMessages(records, faultAt, redeliver) =>
                \A k \in DOMAIN records :
                    records[k].operation \notin KnownOperations =>
                        /\ response'.thrown => faultAt # k
                        /\ faultAt \in {0, k} =>
                              /\ ~response'.thrown
                              /\ response'.statusCode = 200
                              /\ [orgs |-> orgs', users |-> users'] =
                                    ApplyAll(Store, Without(records, k), Len(records) - 1)
      ]_vars

\* an invocation has returned 200 for a batch with a record of an unknown
\* operation followed by an Intent, which it applied
C9_Witness ==
    /\ response.handler = "processSqsMessages"
    /\ response.statusCode = 200
    /\ \E k \in DOMAIN event, j \in DOMAIN event :
          /\ k < j
          /\ event[k].operation \notin KnownOperations
          /\ event[j].operation \in KnownOperations
          /\ HasTarget(Store, event[j])
          /\ Target(Store, event[j]).updatedAt = event[j].data.updatedAt

\* C10: a producer call that answers 202 has added exactly one message to the
\* queue and has left both tables as they were.
C10_AcceptedPublishesOnce ==
    [][ ( /\ response'.statusCode = 202
          /\ response'.handler \in {"createOrganization", "updateOrganization",
                                    "createOrUpdateUser"} ) =>
            /\ BagCardinality(queue') = BagCardinality(queue) + 1
            /\ \E m \in BagToSet(queue') : queue' = queue (+) SetToBag({m})
            /\ orgs' = orgs
            /\ users' = users
      ]_vars

\* each of the three producers has been accepted: its message is pending
C10_Witness ==
    /\ response.statusCode = 202
    /\ response.handler = "createOrUpdateUser"
    /\ \E m \in Pending : m.operation = "updateOrganization"
    /\ \E m \in Pending :
          /\ m.operation \in {"createUser", "updateUser"}
          /\ m.data.userId = response.body

\* C11: when the store raises an error while the k-th record of a batch is
\* applied, the invocation throws, every message of the batch stays in the
\* queue, and the tables hold exactly the effects of records 1..k-1: nothing
\* is rolled back and no record from position k on is applied.
C11_FailurePolicy ==
    [][ response'.handler = "processSqsMessages" =>
          \A records \in Batches :
            \A faultAt \in 1..Len(records), redeliver \in BOOLEAN :
              ( /\ records[faultAt].operation \in KnownOperations
                /\ processSqsMessages(records, faultAt, redeliver) ) =>
                  /\ response'.thrown
                  /\ response'.statusCode # 200
                  /\ queue' = queue
                  /\ [orgs |-> orgs', users |-> users'] =
                        ApplyAll(Store, records, faultAt - 1)
      ]_vars

\* an invocation has thrown at the second record of a batch: the Organization
\* of the first record is in the table, the User of the second is not, and
\* both messages are still in the queue
C11_Witness ==
    /\ response.handler = "processSqsMessages"
    /\ response.thrown
    /\ Len(event) = 2
    /\ event[1].operation = "createOrganization"
    /\ event[1].data.orgId \in DOMAIN orgs
    /\ orgs[event[1].data.orgId].createdAt = event[1].data.createdAt
    /\ event[2].operation = "createUser"
    /\ event[2].data.userId \notin DOMAIN users
    /\ BatchBag(event) \sqsubseteq queue

\* the records of a batch whose iteration does not throw of itself
WellFormed(records) == SelectSeq(records, LAMBDA r : ~IterationThrows(r))

\* C12: (as claimed) a record whose body is not valid JSON, or is a message of
\* a known operation without data, does not make the invocation throw while
\* the store is in order: the invocation returns 200, the batch leaves the
\* queue and the other records of the batch are applied.
C12_MalformedDropped ==
    [][ response'.handler = "processSqsMessages" =>
          \A records \in Batches : \A redeliver \in BOOLEAN :
              ( /\ \E k \in DOMAIN records : IterationThrows(records[k])
                /\ processSqsMessages(records, 0, redeliver) ) =>
                  /\ ~response'.thrown
                  /\ response'.statusCode = 200
                  /\ ~redeliver => queue' = queue (-) BatchBag(records)
                  /\ [orgs |-> orgs', users |-> users'] =
                        ApplyAll(Store, WellFormed(records), Len(WellFormed(records)))
      ]_vars

\* C13: (as claimed) a User record that has an orgId keeps that orgId in
\* every later state: no step removes the record or gives it another orgId.
C13_UserKeepsOrganization ==
    [][ \A u \in DOMAIN users :
          "orgId" \in DOMAIN users[u] =>
              /\ u \in DOMAIN users'
              /\ Prop(users'[u], "orgId") = users[u].orgId
      ]_vars

\* C14: (as claimed) every User record of the store has an orgId, and that
\* orgId is the key of an Organization record of the store.
C14_UserReferencesOrganization ==
    \A u \in DOMAIN users :
        /\ "orgId" \in DOMAIN users[u]
        /\ users[u].orgId \in DOMAIN orgs

\* two Intents about the same item
SameTarget(m1, m2) ==
    /\ m1.operation \in KnownOperations
    /\ m2.operation \in KnownOperations
    /\ ForOrganization(m1) = ForOrganization(m2)
    /\ IF ForOrganization(m1) THEN m1.data.orgId = m2.data.orgId
       ELSE m1.data.userId = m2.data.userId

\* C15: (as claimed) for two pending Intents about the same item, the store
\* after both have been applied is the same in either order of application,
\* and applying the first once more after the second changes nothing.
C15_OrderInsensitive ==
    \A m1 \in Pending, m2 \in Pending :
        SameTarget(m1, m2) =>
            /\ Apply(Apply(Store, m1), m2) = Apply(Apply(Store, m2), m1)
            /\ Apply(Apply(Apply(Store, m1), m2), m1) = Apply(Apply(Store, m1), m2)

\* C16: createOrganization answers 400 when name or description is missing;
\* otherwise 409 exactly when the Organizations table holds an item of that
\* name; otherwise it answers 202 with an orgId issued for this request and
\* has sent one createOrganization message of that orgId, name and
\* description. A rejected request sends nothing.
C16_CreateOrganizationOutcome ==
    [][ response'.handler = "createOrganization" =>
          \A name \in OrgNames \cup {Undefined}, description \in Descriptions \cup {Undefined} :
            createOrganization(name, description) =>
              IF name = Undefined \/ description = Undefined
              THEN response'.statusCode = 400 /\ queue' = queue
              ELSE IF \E k \in DOMAIN orgs : Prop(orgs[k], "name") = name
              THEN response'.statusCode = 409 /\ queue' = queue
              ELSE /\ response'.statusCode = 202
                   /\ response'.body \notin IssuedOrgIds
                   /\ response'.body \in IssuedOrgIds'
                   /\ \E m \in BagToSet(queue') :
                         /\ queue' = queue (+) SetToBag({m})
                         /\ m.operation = "createOrganization"
                         /\ m.data.orgId = response'.body
                         /\ m.data.name = name
                         /\ m.data.description = description
      ]_vars

\* createOrganization has answered 409 for the name of an Organization that
\* was created in this run
C16_Witness ==
    /\ response.handler = "createOrganization"
    /\ response.statusCode = 409
    /\ \E k \in DOMAIN orgs : orgs[k].createdAt > 0

\* C17: (as claimed) for a request with name and email and the orgId of an
\* Organization of the store, createOrUpdateUser answers 409 if and only if
\* some User of that Organization has the email and is not the User the
\* request excludes: any such User on POST, any such User of another userId
\* than the request's on PUT.
C17_ConflictIffOtherUser ==
    [][ (response'.handler = "createOrUpdateUser" /\ response'.statusCode \in {202, 409}) =>
          \A method \in {"POST", "PUT"}, orgId \in DOMAIN orgs, userId \in UserIdInputs,
             name \in UserNames, email \in Emails :
            createOrUpdateUser(method, orgId, userId, name, email) =>
              LET newUserId == IF userId = Undefined THEN UserUuids[nextUser] ELSE userId
                  others == {k \in DOMAIN users :
                                /\ Prop(users[k], "orgId") = orgId
                                /\ Prop(users[k], "email") = email
                                /\ method = "POST" \/ k # newUserId}
              IN  response'.statusCode = 409 <=> others # {}
      ]_vars

C19_GetUserScoped ==
    /\ \A orgId \in OrgIdInputs \ {Undefined}, userId \in UserIdInputs \ {Undefined} :
          LET r == getUserResponse(orgId, userId)
          IN  /\ r.statusCode = 200 <=>
                    (userId \in DOMAIN users /\ Prop(users[userId], "orgId") = orgId)
              /\ r.statusCode \in {200, 404}
              /\ r.statusCode = 200 =>
                    /\ r.body = users[userId]
                    /\ r.body.userId = userId
                    /\ r.body.orgId = orgId
              /\ r.statusCode = 404 => \A u \in DOMAIN users : users[u] # r.body
              /\ orgId \notin DOMAIN orgs => r.statusCode = 404
    /\ (response.handler = "getUser" /\ response.statusCode = 200) =>
          \E u \in DOMAIN users : users[u] = response.body

\* getUser has answered 404 for a User of the table asked for under the
\* orgId of an Organization that is not the User's
C19_Witness ==
    /\ response.handler = "getUser"
    /\ response.statusCode = 404
    /\ response.body.userId \in DOMAIN users
    /\ response.body.orgId \in DOMAIN orgs
    /\ Prop(users[response.body.userId], "orgId") \in DOMAIN orgs
    /\ Prop(users[response.body.userId], "orgId") # response.body.orgId

ReadHandlers == {"getOrganization", "getUser", "getAllOrganizations",
                 "getAllUsersByOrganization"}

\* the User items whose orgId is orgId
UsersOf(orgId) == {users[k] : k \in {u \in DOMAIN users : Prop(users[u], "orgId") = orgId}}

\* C20: for a request that carries the path parameter,
\* getAllUsersByOrganization answers 404 when the Organizations table has no
\* item under orgId, and otherwise 200 with exactly the User items whose
\* orgId is orgId, none when there are none; and no read handler changes a
\* table or the queue.
C20_ListUsersOfOrganization ==
    [][ /\ \A orgId \in OrgIdInputs \ {Undefined} :
              LET r == getAllUsersByOrganizationResponse(orgId)
              IN  IF orgId \notin DOMAIN orgs
                  THEN r.statusCode = 404
                  ELSE r.statusCode = 200 /\ r.body = UsersOf(orgId)
        /\ (response'.handler = "getAllUsersByOrganization" /\ response'.statusCode = 200) =>
              \E orgId \in DOMAIN orgs : response'.body = UsersOf(orgId)
        /\ response'.handler \in ReadHandlers =>
              /\ orgs' = orgs
              /\ users' = users
              /\ queue' = queue
      ]_vars

\* getAllUsersByOrganization has answered 200 with the Users of one
\* Organization while the table holds a User of another Organization
C20_Witness ==
    /\ response.handler = "getAllUsersByOrganization"
    /\ response.statusCode = 200
    /\ response.body # {}
    /\ \E u \in DOMAIN users :
          /\ users[u] \notin response.body
          /\ Prop(users[u], "orgId") \in DOMAIN orgs
    /\ queue # EmptyBag

\* C21: an Organization item of the table is never removed, and its orgId
\* (which is its key) and its createdAt never change, whatever handler runs
\* and whatever batch the consumer is handed, delivered again or not.
C21_OrganizationIdentity ==
    [][ \A o \in DOMAIN orgs :
          /\ o \in DOMAIN orgs'
          /\ orgs[o].orgId = o
          /\ orgs'[o].orgId = o
          /\ orgs'[o].createdAt = orgs[o].createdAt
      ]_vars

\* the consumer has applied a createOrganization Intent whose message is
\* still in the queue, to be delivered again, after a later request was served
C21_Witness ==
    /\ response.handler = "processSqsMessages"
    /\ \E j \in DOMAIN event :
          /\ event[j].operation = "createOrganization"
          /\ event[j].data.orgId \in DOMAIN orgs
          /\ orgs[event[j].data.orgId].createdAt = event[j].data.createdAt
          /\ event[j] \in Pending
          /\ clock > event[j].data.createdAt

\* the attributes the case of an Intent writes
SetFields(m) ==
    CASE m.operation = "createOrganization" -> DOMAIN OrgItem(m.data)
      [] m.operation = "createUser" -> DOMAIN UserItem(m.data)
      [] m.operation = "updateOrganization" -> DOMAIN OrgSets(m.data)
      [] m.operation = "updateUser" -> DOMAIN UserSets(m.data)
      [] OTHER -> {}

\* C22: the records of a batch are applied in the order of event.Records:
\* when the invocation does not throw and two records of the batch are
\* Intents about the same item, the later one being the last of the batch
\* about it, every attribute that both write has the value the later one
\* carries.
C22_BatchOrder ==
    [][ (response'.handler = "processSqsMessages" /\ ~response'.thrown) =>
          \A i \in DOMAIN event', j \in DOMAIN event' :
            ( /\ i < j
              /\ SameTarget(event'[i], event'[j])
              /\ LastForTarget(event', j) ) =>
                /\ HasTarget([orgs |-> orgs', users |-> users'], event'[j])
                /\ \A f \in SetFields(event'[i]) \cap SetFields(event'[j]) :
                      Target([orgs |-> orgs', users |-> users'], event'[j])[f]
                          = event'[j].data[f]
      ]_vars

\* the consumer has applied a batch of two Intents about the same item that
\* carry different names: the item has the name of the second
C22_Witness ==
    /\ response.handler = "processSqsMessages"
    /\ response.statusCode = 200
    /\ Len(event) = 2
    /\ SameTarget(event[1], event[2])
    /\ "name" \in DOMAIN event[1].data
    /\ "name" \in DOMAIN event[2].data
    /\ event[1].data.name # event[2].data.name
    /\ HasTarget(Store, event[2])
    /\ Target(Store, event[2]).name = event[2].data.name

Producers == {"createOrganization", "updateOrganization", "createOrUpdateUser"}

\* C23: a producer call that does not answer 202 answers 400, 404, 409 or
\* 500, one response for the request, and has sent no message and written
\* nothing: the queue and both tables are as they were.
C23_RejectedPublishesNothing ==
    [][ (response'.handler \in Producers /\ response'.statusCode # 202) =>
            /\ response = NoResponse
            /\ response'.statusCode \in {400, 404, 409, 500}
            /\ ~response'.thrown
            /\ queue' = queue
            /\ orgs' = orgs
            /\ users' = users
      ]_vars

\* a producer has answered 500 while an Intent accepted earlier is pending
C23_Witness ==
    /\ response.handler \in Producers
    /\ response.statusCode = 500
    /\ \E m \in Pending : m.operation \in KnownOperations

\* the items of a table other than the one under key are the same in both
SameButFor(table, after, key) ==
    /\ DOMAIN after \ {key} = DOMAIN table \ {key}
    /\ \A k \in DOMAIN table \ {key} : after[k] = table[k]

\* C24: applying one Intent writes at most the item under the Intent's
\* orgId in Organizations (for an Intent about an Organization) or under its
\* userId in Users (for an Intent about a User): every other item of that
\* table and the whole other table are as before, and a record of an unknown
\* operation writes nothing. Through an invocation of the consumer, an item
\* that no record of the batch is about is unchanged, and the queue holds what
\* it held, less the batch when the invocation succeeded.
C24_ApplyFrame ==
    [][ /\ \A m \in Pending :
              LET after == Apply(Store, m)
              IN  IF m.operation \notin KnownOperations THEN after = Store
                  ELSE IF ForOrganization(m)
                  THEN after.users = users /\ SameButFor(orgs, after.orgs, m.data.orgId)
                  ELSE after.orgs = orgs /\ SameButFor(users, after.users, m.data.userId)
        /\ response'.handler = "processSqsMessages" =>
              /\ \A k \in DOMAIN orgs \cup DOMAIN orgs' :
                    Untouched(event', TRUE, k) =>
                        k \in DOMAIN orgs /\ k \in DOMAIN orgs' /\ orgs'[k] = orgs[k]
              /\ \A k \in DOMAIN users \cup DOMAIN users' :
                    Untouched(event', FALSE, k) =>
                        k \in DOMAIN users /\ k \in DOMAIN users' /\ users'[k] = users[k]
              /\ queue' = queue \/ (~response'.thrown /\ queue' = queue (-) BatchBag(event'))
      ]_vars

\* the consumer has applied one updateOrganization Intent while the tables
\* hold another Organization and Users
C24_Witness ==
    /\ response.handler = "processSqsMessages"
    /\ response.statusCode = 200
    /\ Len(event) = 1
    /\ event[1].operation = "updateOrganization"
    /\ orgs[event[1].data.orgId].updatedAt = event[1].data.updatedAt
    /\ \E k \in DOMAIN orgs : k # event[1].data.orgId /\ orgs[k].updatedAt # event[1].data.updatedAt
    /\ users # << >>

\* C25: a POST that carries the userId of a User of the table, for an
\* Organization of the table in which no User has the email, is answered 202
\* with that userId and publishes its createUser Intent; and when the
\* consumer has applied a createUser Intent whose userId the table already
\* held, the item is the Intent's: orgId, name, email, createdAt and
\* updatedAt are all the Intent's.
C25_ClientUserIdOverwrites ==
    [][ /\ (response'.handler = "createOrUpdateUser" /\ response'.statusCode \in {202, 409}) =>
              \A orgId \in DOMAIN orgs, userId \in DOMAIN users,
                 name \in UserNames, email \in Emails :
                ( /\ createOrUpdateUser("POST", orgId, userId, name, email)
                  /\ \A k \in DOMAIN users :
                        ~(Prop(users[k], "orgId") = orgId /\ Prop(users[k], "email") = email) ) =>
                    /\ response'.statusCode = 202
                    /\ response'.body = userId
                    /\ \E m \in BagToSet(queue') :
                          /\ queue' = queue (+) SetToBag({m})
                          /\ m.operation = "createUser"
                          /\ m.data.userId = userId
                          /\ m.data.orgId = orgId
                          /\ m.data.name = name
                          /\ m.data.email = email
        /\ (response'.handler = "processSqsMessages" /\ ~response'.thrown) =>
              \A j \in DOMAIN event', u \in DOMAIN users :
                ( /\ event'[j].operation = "createUser"
                  /\ event'[j].data.userId = u
                  /\ LastForTarget(event', j) ) =>
                    users'[u] = [userId |-> u,
                                 orgId |-> event'[j].data.orgId,
                                 name |-> event'[j].data.name,
                                 email |-> event'[j].data.email,
                                 createdAt |-> event'[j].data.createdAt,
                                 updatedAt |-> event'[j].data.updatedAt]
      ]_vars

\* a POST with the userId of a User of another Organization has been
\* accepted: its createUser Intent is pending
C25_Witness ==
    /\ response.handler = "createOrUpdateUser"
    /\ response.statusCode = 202
    /\ response.body \in DOMAIN users
    /\ \E m \in Pending :
          /\ m.operation = "createUser"
          /\ m.data.userId = response.body
          /\ m.data.orgId # Prop(users[response.body], "orgId")

\* C26: an accepted createOrUpdateUser call has sent one message whose
\* operation is createUser exactly when the method is POST and updateUser
\* exactly when it is PUT; the message's userId is the userId of the body
\* when the body has one and otherwise, for both methods, an id issued for
\* this request; and the 202 returns that userId.
C26_UserIntentKind ==
    [][ (response'.handler = "createOrUpdateUser" /\ response'.statusCode = 202) =>
          \A method \in {"POST", "PUT"}, orgId \in DOMAIN orgs, userId \in UserIdInputs,
             name \in UserNames, email \in Emails :
            createOrUpdateUser(method, orgId, userId, name, email) =>
              \E m \in BagToSet(queue') :
                  /\ queue' = queue (+) SetToBag({m})
                  /\ m.operation = "createUser" <=> method = "POST"
                  /\ m.operation = "updateUser" <=> method = "PUT"
                  /\ userId # Undefined => m.data.userId = userId
                  /\ userId = Undefined =>
                        /\ m.data.userId \notin IssuedUserIds
                        /\ m.data.userId \in IssuedUserIds'
                        /\ m.data.userId \notin DOMAIN users
                  /\ response'.body = m.data.userId
      ]_vars

\* a PUT without userId has been accepted: its updateUser Intent carries the
\* userId generated for it, which the 202 returns
C26_Witness ==
    /\ response.handler = "createOrUpdateUser"
    /\ response.statusCode = 202
    /\ response.body = UserUuids[nextUser - 1]
    /\ response.body \notin DOMAIN users
    /\ \E m \in Pending :
          /\ m.operation = "updateUser"
          /\ m.data.userId = response.body
          /\ m.data.updatedAt = clock

\* the invocation that has just ended applied the Intent accepted at reading
\* t and did not throw
AppliedNow(t) ==
    /\ response.handler = "processSqsMessages"
    /\ ~response.thrown
    /\ \E j \in DOMAIN event : IsIntentOf(event[j], t)

C28_OrganizationComplete ==
    /\ \A o \in DOMAIN orgs :
          /\ DOMAIN orgs[o] = {"orgId", "name", "description", "createdAt", "updatedAt"}
          /\ orgs[o].orgId = o
          /\ Truthy(orgs[o].name)
          /\ Truthy(orgs[o].description)
          /\ orgs[o].createdAt \in Nat
          /\ orgs[o].updatedAt \in Nat
    /\ \A m \in Pending :
          m.operation = "updateOrganization" => m.data.orgId \in DOMAIN orgs

\* the consumer has applied an updateOrganization Intent that carries a
\* description and no name
C28_Witness ==
    /\ response.handler = "processSqsMessages"
    /\ response.statusCode = 200
    /\ \E j \in DOMAIN event :
          /\ event[j].operation = "updateOrganization"
          /\ "name" \notin DOMAIN event[j].data
          /\ orgs[event[j].data.orgId].description = event[j].data.description
          /\ orgs[event[j].data.orgId].updatedAt = event[j].data.updatedAt

\* C29: (as claimed) applying the Intent of a request addressed to
\* /organizations/{A}/users writes no User item whose orgId, before or after
\* the write, is not A: the item it creates or changes has the orgId A
\* afterwards, and had it before when it existed.
C29_TenantWriteIsolation ==
    \A m \in Pending :
        m.operation \in {"createUser", "updateUser"} =>
            LET after == Apply(Store, m).users
            IN  \A u \in DOMAIN after :
                    (u \notin DOMAIN users \/ after[u] # users[u]) =>
                        /\ Prop(after[u], "orgId") = m.data.orgId
                        /\ u \in DOMAIN users => Prop(users[u], "orgId") = m.data.orgId

====
